---- MODULE Spec2Model ----
(***************************************************************************)
(* Text cleaning / structuring / chunking pipeline of MicrosoftLearnToAudio *)
(* (src/src/text_processor.py).  A text is a sequence of one-character      *)
(* strings; every pure function of TextProcessor is an operator computed    *)
(* the way the Python code computes it, and the actions apply them to       *)
(* inputs drawn from bounded sets.                                          *)
(***************************************************************************)
EXTENDS FiniteSets, Integers, Sequences, TLC

VARIABLES text, max_chunk_size, origin, call, ret, raised

\* the run of main.py: its arguments, its position, and what it has done
VARIABLES url, voice_type, pc, valid, exit_code, unit_links, idx, fetches,
          title_requests, console, unit_content, processed_text

\* the conversion of the current unit by AudioConverter.text_to_audio
VARIABLES text_chunks, backend_calls, temp_files, disk, output, success, faults

text_vars == <<text, max_chunk_size, origin, call, ret, raised>>

main_vars ==
  <<url, voice_type, pc, valid, exit_code, unit_links, idx, fetches,
    title_requests, console, unit_content, processed_text>>

converter_vars ==
  <<text_chunks, backend_calls, temp_files, disk, output, success, faults>>

vars == <<text_vars, main_vars, converter_vars>>

(***************************************************************************)
(* Characters (Python str semantics restricted to the model's alphabet).    *)
(***************************************************************************)
LowerSeq ==
  <<"a","b","c","d","e","f","g","h","i","j","k","l","m","n","o","p","q","r",
    "s","t","u","v","w","x","y","z","á","é","í","ó","ú","ñ","ü">>

UpperSeq ==
  <<"A","B","C","D","E","F","G","H","I","J","K","L","M","N","O","P","Q","R",
    "S","T","U","V","W","X","Y","Z","Á","É","Í","Ó","Ú","Ñ","Ü">>

Lowercase == {LowerSeq[i] : i \in 1..Len(LowerSeq)}

Uppercase == {UpperSeq[i] : i \in 1..Len(UpperSeq)}

Digits == {"0","1","2","3","4","5","6","7","8","9"}

\* str.isspace() / regex \s
Whitespace == {" ", "\t", "\n", "\r", "\f"}

\* regex \w
WordChars == Lowercase \cup Uppercase \cup Digits \cup {"_"}

\* the characters the third cleanup pattern keeps
AllowedChars ==
  WordChars \cup Whitespace \cup
  {"-", ".", ",", ";", ":", "!", "?", "¡", "¿", "(", ")", "[", "]", "\"", "'", "/"}

\* Python's None where a text is expected: no text holds this element
None == <<"None">>

\* the exception an attribute access on None raises, as a result value
AttributeError == <<"AttributeError">>

\* the content of a path where no file exists (the audios of a file are
\* numbered from 1)
NoFile == <<-1>>

\* no fault injected into the collaborators of a conversion
NoFaults == [synthesis |-> 0, combine |-> "ok"]

\* main.py has not been started
NotRunning ==
  /\ url = <<>>
  /\ voice_type = "offline"
  /\ pc = "idle"
  /\ valid = FALSE
  /\ exit_code = -1
  /\ unit_links = <<>>
  /\ idx = 0
  /\ fetches = <<>>
  /\ title_requests = <<>>
  /\ console = <<>>
  /\ unit_content = <<>>
  /\ processed_text = <<>>
  /\ text_chunks = <<>>
  /\ backend_calls = <<>>
  /\ temp_files = <<>>
  /\ disk = {}
  /\ output = NoFile
  /\ success = FALSE
  /\ faults = NoFaults

\* str.lower() on one character
LowerChar(c) ==
  IF c \in Uppercase
    THEN LowerSeq[CHOOSE i \in 1..Len(UpperSeq) : UpperSeq[i] = c]
    ELSE c

\* str.lower()
Lower(s) == [i \in 1..Len(s) |-> LowerChar(s[i])]

(***************************************************************************)
(* Generic string helpers.                                                  *)
(***************************************************************************)
MaxOf(S) == 0 - (CHOOSE m \in {0 - k : k \in S} : \A k \in S : m <= 0 - k)

MinOf(S) == CHOOSE m \in S : \A k \in S : m <= k

\* number of consecutive characters of s, from position i on, that are in C
RunLen(s, i, C) ==
  LET stops == {k \in i..Len(s) : s[k] \notin C}
  IN  IF stops = {} THEN Len(s) + 1 - i ELSE MinOf(stops) - i

\* number of consecutive characters of s, from position i on, that are not in C
RunLenOutside(s, i, C) ==
  LET stops == {k \in i..Len(s) : s[k] \in C}
  IN  IF stops = {} THEN Len(s) + 1 - i ELSE MinOf(stops) - i

\* str.strip()
Strip(s) ==
  LET keep == {k \in 1..Len(s) : s[k] \notin Whitespace}
  IN  IF keep = {} THEN <<>> ELSE SubSeq(s, MinOf(keep), MaxOf(keep))

\* str.startswith(p)
StartsWith(s, p) == Len(p) <= Len(s) /\ SubSeq(s, 1, Len(p)) = p

\* str.endswith(p)
EndsWith(s, p) == Len(p) <= Len(s) /\ SubSeq(s, Len(s) - Len(p) + 1, Len(s)) = p

\* p in s
Contains(s, p) ==
  \E i \in 1..(Len(s) - Len(p) + 1) :
    /\ p = <<>> \/ s[i] = p[1]
    /\ SubSeq(s, i, i + Len(p) - 1) = p

\* str.split('\n'): always at least one (possibly empty) line
SplitLines(s) ==
  LET nl == {k \in 1..Len(s) : s[k] = "\n"}
      f[i \in 1..(Len(s) + 1)] ==
        LET rest == {k \in nl : k >= i}
        IN  IF rest = {} THEN <<SubSeq(s, i, Len(s))>>
            ELSE <<SubSeq(s, i, MinOf(rest) - 1)>> \o f[MinOf(rest) + 1]
  IN  f[1]

\* '\n'.join(lines)
JoinLines(lines) ==
  LET f[i \in 1..(Len(lines) + 1)] ==
        IF i > Len(lines) THEN <<>>
        ELSE IF i = Len(lines) THEN lines[i]
        ELSE lines[i] \o <<"\n">> \o f[i + 1]
  IN  f[1]

\* re.sub(pattern, repl, s) for a pattern that never matches the empty
\* string: match_len[k] is the length of the match starting at k, 0 if none.
\* The scan goes from one leftmost match to the next one after it.
ReSub(match_len, repl, s) ==
  LET starts == {k \in 1..Len(s) : match_len[k] > 0}
      f[i \in 1..(Len(s) + 1)] ==
        LET rest == {k \in starts : k >= i}
        IN  IF rest = {} THEN SubSeq(s, i, Len(s))
            ELSE LET k == MinOf(rest)
                 IN  SubSeq(s, i, k - 1) \o repl \o f[k + match_len[k]]
  IN  f[1]

(***************************************************************************)
(* cleanup_patterns and _basic_cleanup.                                     *)
(***************************************************************************)
\* r'\s+'
MatchSpaces(s, i) == IF s[i] \in Whitespace THEN RunLen(s, i, Whitespace) ELSE 0

\* r'\n\s*\n\s*\n+': from a newline to the last newline of the whitespace run
\* it starts, when that run holds at least three newlines
MatchNewlines(s, i) ==
  IF s[i] # "\n" THEN 0
  ELSE LET r  == RunLen(s, i, Whitespace)
           nl == {k \in i..(i + r - 1) : s[k] = "\n"}
       IN  IF Cardinality(nl) >= 3 THEN MaxOf(nl) - i + 1 ELSE 0

\* MatchDisallowed with '#' added to the allowlist
MatchDisallowedButHash(s, i) ==
  IF s[i] \in AllowedChars \cup {"#"} THEN 0 ELSE 1

\* r'[^\w\s\-.,;:!?...]'
MatchDisallowed(s, i) == IF s[i] \in AllowedChars THEN 0 ELSE 1

\* r'\.{2,}', r'\?{2,}', r'!{2,}'
MatchRepeat(c, s, i) ==
  IF s[i] # c THEN 0
  ELSE LET r == RunLen(s, i, {c}) IN IF r >= 2 THEN r ELSE 0

MatchDots(s, i) == MatchRepeat(".", s, i)

MatchQuestions(s, i) == MatchRepeat("?", s, i)

MatchBangs(s, i) == MatchRepeat("!", s, i)

\* the six substitutions, applied in list order
_basic_cleanup(t) ==
  LET t1 == ReSub([k \in 1..Len(t) |-> MatchSpaces(t, k)], <<" ">>, t)
      t2 == ReSub([k \in 1..Len(t1) |-> MatchNewlines(t1, k)], <<"\n", "\n">>, t1)
      t3 == ReSub([k \in 1..Len(t2) |-> MatchDisallowed(t2, k)], <<>>, t2)
      t4 == ReSub([k \in 1..Len(t3) |-> MatchDots(t3, k)], <<".">>, t3)
      t5 == ReSub([k \in 1..Len(t4) |-> MatchQuestions(t4, k)], <<"?">>, t4)
      t6 == ReSub([k \in 1..Len(t5) |-> MatchBangs(t5, k)], <<"!">>, t5)
  IN  t6

(***************************************************************************)
(* filter_phrases and _filter_unwanted_content.                             *)
(***************************************************************************)
filter_phrases ==
  << <<"s","k","i","p"," ","t","o"," ","m","a","i","n"," ","c","o","n","t","e","n","t">>,
     <<"b","r","e","a","d","c","r","u","m","b"," ","n","a","v","i","g","a","t","i","o","n">>,
     <<"t","a","b","l","e"," ","o","f"," ","c","o","n","t","e","n","t","s">>,
     <<"i","n"," ","t","h","i","s"," ","a","r","t","i","c","l","e">>,
     <<"n","e","x","t"," ","s","t","e","p","s">>,
     <<"f","e","e","d","b","a","c","k">>,
     <<"w","a","s"," ","t","h","i","s"," ","p","a","g","e"," ","h","e","l","p","f","u","l">>,
     <<"s","u","b","m","i","t"," ","a","n","d"," ","v","i","e","w"," ","f","e","e","d","b","a","c","k">>,
     <<"m","i","c","r","o","s","o","f","t"," ","l","e","a","r","n">>,
     <<"s","i","g","n"," ","i","n">>,
     <<"s","e","a","r","c","h">>,
     <<"b","r","o","w","s","e">>,
     <<"t","h","e","m","e">>,
     <<"l","i","g","h","t">>,
     <<"d","a","r","k">>,
     <<"h","i","g","h"," ","c","o","n","t","r","a","s","t">>,
     <<"p","r","e","v","i","o","u","s"," ","u","n","i","t">>,
     <<"n","e","x","t"," ","u","n","i","t">>,
     <<"c","o","m","p","l","e","t","e","d">>,
     <<"c","h","e","c","k"," ","y","o","u","r"," ","k","n","o","w","l","e","d","g","e">>,
     <<"k","n","o","w","l","e","d","g","e"," ","c","h","e","c","k">>,
     <<"l","e","e","r"," ","e","n"," ","i","n","g","l","e","s">>,
     <<"a","g","r","e","g","a","r">>,
     <<"a","g","r","e","g","a","r"," ","a","l"," ","p","l","a","n">>,
     <<"l","o","g","r","o","s">>,
     <<"p","r","e","g","u","n","t","a","r"," ","a"," ","l","e","a","r","n">>,
     <<"c","o","m","p","l","e","t","a","d","o">>,
     <<"c","o","m","e","n","t","a","r","i","o","s">>,
     <<"l","e"," ","h","a"," ","r","e","s","u","l","t","a","d","o"," ","u","t","i","l"," ","e","s","t","a"," ","p","a","g","i","n","a">>,
     <<"m","i","n","u","t","o","s">> >>

\* the loop over filter_phrases (lines 91-95)
MatchesPhrase(line_lower) ==
  LET f[i \in 1..(Len(filter_phrases) + 1)] ==
        IF i > Len(filter_phrases) THEN FALSE
        ELSE IF Contains(line_lower, filter_phrases[i]) THEN TRUE
        ELSE f[i + 1]
  IN  f[1]

\* re.match(r'^\d+\s*(min|sec|hr|minute|second|hour)', line_lower)
MatchesDuration(line_lower) ==
  LET d == RunLen(line_lower, 1, Digits)
      w == RunLen(line_lower, d + 1, Whitespace)
      rest == SubSeq(line_lower, d + w + 1, Len(line_lower))
  IN  /\ d >= 1
      /\ \/ StartsWith(rest, <<"m","i","n">>)
         \/ StartsWith(rest, <<"s","e","c">>)
         \/ StartsWith(rest, <<"h","r">>)
         \/ StartsWith(rest, <<"m","i","n","u","t","e">>)
         \/ StartsWith(rest, <<"s","e","c","o","n","d">>)
         \/ StartsWith(rest, <<"h","o","u","r">>)

\* a prefix followed by one or more digits and nothing else
PrefixThenDigits(s, p) ==
  /\ StartsWith(s, p)
  /\ Len(s) > Len(p)
  /\ RunLen(s, Len(p) + 1, Digits) = Len(s) - Len(p)

\* re.match(r'^(step \d+|unit \d+|\d+\.)$', line_lower)
MatchesMarker(line_lower) ==
  \/ PrefixThenDigits(line_lower, <<"s","t","e","p"," ">>)
  \/ PrefixThenDigits(line_lower, <<"u","n","i","t"," ">>)
  \/ /\ Len(line_lower) >= 2
     /\ RunLen(line_lower, 1, Digits) = Len(line_lower) - 1
     /\ line_lower[Len(line_lower)] = "."

\* KeepsLine comparing against the line as written instead of line_lower
KeepsLineCaseSensitive(line) ==
  IF Len(line) < 3 THEN FALSE
  ELSE ~(\/ MatchesPhrase(line)
         \/ StartsWith(line, <<"h","t","t","p">>)
         \/ StartsWith(line, <<"w","w","w",".">>)
         \/ StartsWith(line, <<"m","a","i","l","t","o",":">>)
         \/ EndsWith(line, <<"m","i","n">>)
         \/ EndsWith(line, <<"s","e","c">>)
         \/ EndsWith(line, <<"h","r">>)
         \/ MatchesDuration(line)
         \/ MatchesMarker(line))

\* the body of the loop of _filter_unwanted_content for one (stripped) line:
\* TRUE when the line is appended to filtered_lines
KeepsLine(line) ==
  LET line_lower == Lower(line)
  IN  IF Len(line) < 3 THEN FALSE
      ELSE LET should_filter ==
                 \/ MatchesPhrase(line_lower)
                 \/ StartsWith(line_lower, <<"h","t","t","p">>)
                 \/ StartsWith(line_lower, <<"w","w","w",".">>)
                 \/ StartsWith(line_lower, <<"m","a","i","l","t","o",":">>)
                 \/ EndsWith(line_lower, <<"m","i","n">>)
                 \/ EndsWith(line_lower, <<"s","e","c">>)
                 \/ EndsWith(line_lower, <<"h","r">>)
                 \/ MatchesDuration(line_lower)
                 \/ MatchesMarker(line_lower)
           IN  ~should_filter

_filter_unwanted_content(t) ==
  LET lines == SplitLines(t)
      f[i \in 1..(Len(lines) + 1)] ==
        IF i > Len(lines) THEN <<>>
        ELSE LET line == Strip(lines[i])
             IN  IF KeepsLine(line) THEN <<line>> \o f[i + 1] ELSE f[i + 1]
  IN  JoinLines(f[1])

(***************************************************************************)
(* _is_heading, _structure_for_audio, _normalize_spacing.                   *)
(***************************************************************************)
HeadingMaxLen == 100

\* str.isupper(): no lowercase character and at least one cased character
IsUpper(s) ==
  /\ \A i \in 1..Len(s) : s[i] \notin Lowercase
  /\ \E i \in 1..Len(s) : s[i] \in Uppercase

\* previous_is_cased when the scan of str.istitle() is at position i
PreviousIsCased(s, i) == i > 1 /\ s[i - 1] \in (Uppercase \cup Lowercase)

\* str.istitle(): the scan returns False at an uppercase character that
\* follows a cased one or a lowercase character that does not, and otherwise
\* returns whether it saw a cased character
IsTitle(s) ==
  /\ \A i \in 1..Len(s) :
       /\ s[i] \in Uppercase => ~PreviousIsCased(s, i)
       /\ s[i] \in Lowercase => PreviousIsCased(s, i)
  /\ \E i \in 1..Len(s) : s[i] \in (Uppercase \cup Lowercase)

\* str.split(): the maximal runs of non-whitespace characters
Words(s) ==
  LET f[i \in 1..(Len(s) + 1)] ==
        IF i > Len(s) THEN <<>>
        ELSE IF s[i] \in Whitespace THEN f[i + 1]
        ELSE LET n == RunLenOutside(s, i, Whitespace)
             IN  <<SubSeq(s, i, i + n - 1)>> \o f[i + n]
  IN  f[1]

\* line.endswith(('.', '!', '?', ',', ';', ':'))
EndsWithAny(s, C) == Len(s) > 0 /\ s[Len(s)] \in C

\* _is_heading with the length test off by one
IsHeadingUpToLimit(line) ==
  /\ Len(line) <= HeadingMaxLen
  /\ ~EndsWithAny(line, {".", "!", "?", ",", ";", ":"})
  /\ \/ IsUpper(line)
     \/ IsTitle(line)
     \/ \E w \in 1..Len(Words(line)) : IsUpper(Words(line)[w])

_is_heading(line) ==
  /\ Len(line) < HeadingMaxLen
  /\ ~EndsWithAny(line, {".", "!", "?", ",", ";", ":"})
  /\ \/ IsUpper(line)
     \/ IsTitle(line)
     \/ \E w \in 1..Len(Words(line)) : IsUpper(Words(line)[w])

\* StructuredLines emitting a heading without its '.'
StructuredLinesBareHeading(line) ==
  IF _is_heading(line) THEN <<line, <<>>>>
  ELSE IF line[Len(line)] \notin {".", "!", "?"} THEN <<line \o <<".">>>>
  ELSE <<line>>

\* what the loop body (lines 119-127) appends to structured_lines for one
\* non-empty stripped line
StructuredLines(line) ==
  IF _is_heading(line) THEN <<line \o <<".">>, <<>>>>
  ELSE IF line[Len(line)] \notin {".", "!", "?"} THEN <<line \o <<".">>>>
  ELSE <<line>>

_structure_for_audio(t) ==
  LET lines == SplitLines(t)
      f[i \in 1..(Len(lines) + 1)] ==
        IF i > Len(lines) THEN <<>>
        ELSE LET line == Strip(lines[i])
             IN  IF line = <<>> THEN f[i + 1]
                 ELSE StructuredLines(line) \o f[i + 1]
  IN  JoinLines(f[1])

\* r' +'
MatchBlanks(s, i) == IF s[i] = " " THEN RunLen(s, i, {" "}) ELSE 0

StripEach(lines) == [i \in 1..Len(lines) |-> Strip(lines[i])]

_normalize_spacing(t) ==
  LET t1 == ReSub([k \in 1..Len(t) |-> MatchBlanks(t, k)], <<" ">>, t)
      t2 == ReSub([k \in 1..Len(t1) |-> MatchNewlines(t1, k)], <<"\n", "\n">>, t1)
  IN  JoinLines(StripEach(SplitLines(t2)))

(***************************************************************************)
(* clean_and_structure.                                                     *)
(***************************************************************************)
\* 'not raw_text' testing for the empty string only
FalsyEmptyOnly(raw_text) == raw_text = <<>>

\* not raw_text (line 49)
Falsy(raw_text) == raw_text = <<>> \/ raw_text = None

\* text.lower() of line 69 is the first attribute access on raw_text
clean_and_structure(raw_text) ==
  IF Falsy(raw_text) THEN <<>>
  ELSE IF raw_text = None THEN AttributeError
  ELSE Strip(_normalize_spacing(_structure_for_audio(
             _filter_unwanted_content(_basic_cleanup(raw_text)))))

(***************************************************************************)
(* split_into_chunks.                                                       *)
(***************************************************************************)
\* re.split(r'(?<=[.!?])\s+', s): cut at every whitespace run that directly
\* follows '.', '!' or '?'; the run itself is dropped
SplitSentences(s) ==
  LET cuts == {k \in 2..Len(s) : s[k] \in Whitespace /\ s[k - 1] \in {".", "!", "?"}}
      f[i \in 1..(Len(s) + 1)] ==
        LET rest == {k \in cuts : k >= i}
        IN  IF rest = {} THEN <<SubSeq(s, i, Len(s))>>
            ELSE LET k == MinOf(rest)
                 IN  <<SubSeq(s, i, k - 1)>> \o f[k + RunLen(s, k, Whitespace)]
  IN  f[1]

\* NonEmptyStripped without the 'if s.strip()' filter
StrippedKeepingEmpty(sentences) == [i \in 1..Len(sentences) |-> Strip(sentences[i])]

\* [s.strip() for s in sentences if s.strip()]
NonEmptyStripped(sentences) ==
  LET f[i \in 1..(Len(sentences) + 1)] ==
        IF i > Len(sentences) THEN <<>>
        ELSE IF Strip(sentences[i]) = <<>> THEN f[i + 1]
        ELSE <<Strip(sentences[i])>> \o f[i + 1]
  IN  f[1]

\* the sentence list of lines 165-167
Sentences(t) == NonEmptyStripped(SplitSentences(Strip(t)))

\* SentenceWithSpace without the trailing space
SentenceWithoutSpace(sentence) ==
  IF EndsWithAny(sentence, {".", "!", "?"}) THEN sentence ELSE sentence \o <<".">>

\* SentenceWithSpace never appending '.'
SentenceSpaceOnly(sentence) == sentence \o <<" ">>

\* sentence_with_space of lines 172-173
SentenceWithSpace(sentence) ==
  (IF EndsWithAny(sentence, {".", "!", "?"}) THEN sentence ELSE sentence \o <<".">>)
    \o <<" ">>

\* ExceedsLimit looking at the buffer only, before the sentence is added
ExceedsLimitBufferOnly(current_chunk, sentence_with_space, max_size) ==
  Len(current_chunk) > max_size

\* ExceedsLimit looking at the sentence only
ExceedsLimitSentenceOnly(current_chunk, sentence_with_space, max_size) ==
  Len(sentence_with_space) > max_size

\* the test of line 174
ExceedsLimit(current_chunk, sentence_with_space, max_size) ==
  Len(current_chunk) + Len(sentence_with_space) > max_size

\* FlushesChunk without the emptiness test
FlushesChunkAlways(current_chunk) == TRUE

\* the test of line 175 before the current chunk is appended
FlushesChunk(current_chunk) == current_chunk # <<>>

\* the for loop of lines 170-179 from sentence i on, then lines 180-182
RECURSIVE ChunkLoop(_, _, _, _, _)
ChunkLoop(sentences, i, current_chunk, chunks, max_size) ==
  IF i > Len(sentences)
    THEN IF current_chunk # <<>> THEN Append(chunks, Strip(current_chunk)) ELSE chunks
    ELSE LET sentence_with_space == SentenceWithSpace(sentences[i])
         IN  IF ExceedsLimit(current_chunk, sentence_with_space, max_size)
               THEN ChunkLoop(sentences, i + 1, sentence_with_space,
                              IF FlushesChunk(current_chunk)
                                THEN Append(chunks, Strip(current_chunk))
                                ELSE chunks,
                              max_size)
               ELSE ChunkLoop(sentences, i + 1, current_chunk \o sentence_with_space,
                              chunks, max_size)

\* text.strip() of line 165 is the first attribute access on text
split_into_chunks(t, max_size) ==
  IF t = None THEN AttributeError
  ELSE ChunkLoop(Sentences(t), 1, <<>>, <<>>, max_size)

(***************************************************************************)
(* Inputs.                                                                  *)
(***************************************************************************)
\* most blocks a raw text is made of
MaxBlocks == 2

\* blocks of extracted page text: prose, headings, navigation noise, blank
\* lines
BlockPool ==
  << <<"H","i"," ","t","h","e","r","e",".">>,
     <<"G","o"," ","n","o","w">>,
     <<"P","O","W","E","R"," ","U","P">>,
     <<"N","e","x","t"," ","u","n","i","t">>,
     <<"5"," ","m","i","n">>,
     <<"1","2","3">>,
     <<"a"," ","#"," ","b","!","!">>,
     <<"a","b">>,
     <<"s","t","e","p"," ","2">>,
     <<"u","s","e"," ","t","h","e"," ","C","L","I">>,
     <<"N","o","t","e",":">>,
     <<>>,
     <<"\n"," ","\n">>,
     <<"H","i","."," ","L","o","n","g","e","r"," ","o","n","e","!"," ","O","k","?">> >>

\* what joins two blocks of a raw text
Separators == {<<"\n">>, <<" ">>}

RECURSIVE TextsOf(_)
TextsOf(n) ==
  IF n = 1 THEN {BlockPool[i] : i \in 1..Len(BlockPool)}
  ELSE {t \o sep \o BlockPool[i] :
          t \in TextsOf(n - 1), sep \in Separators, i \in 1..Len(BlockPool)}

\* single lines around the length limit of _is_heading
LongLines ==
  {[i \in 1..n |-> "A"] : n \in (HeadingMaxLen - 1)..(HeadingMaxLen + 1)}

RawTexts == UNION {TextsOf(n) : n \in 1..MaxBlocks} \cup LongLines

DefaultMaxChunkSize == 4000

ChunkSizes == {-1, 0, 5, 10, DefaultMaxChunkSize}

(***************************************************************************)
(* State machine: one call of a TextProcessor method on the current text.   *)
(***************************************************************************)
Init ==
  /\ text \in RawTexts \cup {None}
  /\ max_chunk_size = DefaultMaxChunkSize
  /\ origin = "raw"
  /\ call = "none"
  /\ ret = <<>>
  /\ raised = "none"
  /\ NotRunning

\* a private method, which the class only calls with a string, returns value
Returns(name, value) ==
  /\ call = "none"
  /\ text # None
  /\ call' = name
  /\ ret' = value
  /\ raised' = "none"
  /\ UNCHANGED <<text, origin, main_vars, converter_vars>>

\* a public method returns result, or raises when result is an exception
ReturnsOrRaises(name, result) ==
  /\ call = "none"
  /\ call' = name
  /\ ret' = (IF result = AttributeError THEN <<>> ELSE result)
  /\ raised' = (IF result = AttributeError THEN "AttributeError" ELSE "none")
  /\ UNCHANGED <<text, origin, main_vars, converter_vars>>

CleanAndStructure ==
  /\ ReturnsOrRaises("clean_and_structure", clean_and_structure(text))
  /\ UNCHANGED max_chunk_size

BasicCleanup ==
  /\ Returns("_basic_cleanup", _basic_cleanup(text))
  /\ UNCHANGED max_chunk_size

FilterUnwantedContent ==
  /\ Returns("_filter_unwanted_content", _filter_unwanted_content(text))
  /\ UNCHANGED max_chunk_size

StructureForAudio ==
  /\ Returns("_structure_for_audio", _structure_for_audio(text))
  /\ UNCHANGED max_chunk_size

NormalizeSpacing ==
  /\ Returns("_normalize_spacing", _normalize_spacing(text))
  /\ UNCHANGED max_chunk_size

IsHeading ==
  /\ Returns("_is_heading", _is_heading(text))
  /\ UNCHANGED max_chunk_size

SplitIntoChunks ==
  \E size \in ChunkSizes :
    /\ ReturnsOrRaises("split_into_chunks", split_into_chunks(text, size))
    /\ max_chunk_size' = size

\* the text returned by clean_and_structure is the next input (main.py hands
\* it on to the converter, which chunks it)
Feed ==
  /\ call = "clean_and_structure"
  /\ origin = "raw"
  /\ text' = ret
  /\ origin' = "clean_and_structure"
  /\ call' = "none"
  /\ ret' = <<>>
  /\ max_chunk_size' = DefaultMaxChunkSize
  /\ UNCHANGED <<raised, main_vars, converter_vars>>

Next ==
  \/ CleanAndStructure
  \/ BasicCleanup
  \/ FilterUnwantedContent
  \/ StructureForAudio
  \/ NormalizeSpacing
  \/ IsHeading
  \/ SplitIntoChunks
  \/ Feed

Spec == Init /\ [][Next]_vars

(***************************************************************************)
(* Vocabulary of the properties.                                            *)
(***************************************************************************)
Terminal == {".", "!", "?"}

\* a sentence or line with '.' appended when it lacks terminal punctuation
Terminated(s) ==
  IF Len(s) > 0 /\ s[Len(s)] \in Terminal THEN s ELSE s \o <<".">>

\* the sentences of t, each in its emitted form without the trailing space
CanonicalSentences(t) ==
  LET sentences == Sentences(t)
  IN  [i \in 1..Len(sentences) |-> Terminated(sentences[i])]

\* parts[from..to] joined with single spaces
JoinSpaced(parts, from, to) ==
  LET f[i \in from..(to + 1)] ==
        IF i > to THEN <<>>
        ELSE IF i = to THEN parts[i]
        ELSE parts[i] \o <<" ">> \o f[i + 1]
  IN  f[from]

\* sentence i does not fit max_size in its emitted form
Oversized(canonical, i, max_size) == Len(canonical[i]) + 1 > max_size

Chunked == call = "split_into_chunks" /\ raised = "none"

(***************************************************************************)
(* Chunker properties.                                                      *)
(***************************************************************************)
\* C2: every chunk returned by split_into_chunks(T, M) has length <= M or is
\* exactly one whole sentence of T.
C2_ChunkSizeOrSingleSentence ==
  Chunked =>
    LET canonical == CanonicalSentences(text)
    IN  \A k \in 1..Len(ret) :
          \/ Len(ret[k]) <= max_chunk_size
          \/ \E i \in 1..Len(canonical) : ret[k] = canonical[i]

\* a call that returned both an oversized chunk and a chunk of two sentences
C2_Witness ==
  /\ Chunked
  /\ LET canonical == CanonicalSentences(text)
     IN  /\ \E k \in 1..Len(ret) : Len(ret[k]) > max_chunk_size
         /\ \E k \in 1..Len(ret) : \E i \in 1..(Len(canonical) - 1) :
              ret[k] = JoinSpaced(canonical, i, i + 1)

\* C3: the chunks joined in order with single spaces are the sentences of T in
\* order, each once, '.' appended only where terminal punctuation lacked, and
\* every chunk is made of whole consecutive sentences.
C3_ChunksReproduceSentences ==
  Chunked =>
    LET canonical == CanonicalSentences(text)
    IN  /\ JoinSpaced(ret, 1, Len(ret)) = JoinSpaced(canonical, 1, Len(canonical))
        /\ \A k \in 1..Len(ret) :
             \E from \in 1..Len(canonical) : \E to \in from..Len(canonical) :
               ret[k] = JoinSpaced(canonical, from, to)

\* at least three sentences, the last one unterminated, in at least two
\* chunks, one of them holding two sentences
C3_Witness ==
  /\ Chunked
  /\ LET sentences == Sentences(text)
         canonical == CanonicalSentences(text)
     IN  /\ Len(sentences) >= 3
         /\ sentences[Len(sentences)] # canonical[Len(sentences)]
         /\ Len(ret) >= 2
         /\ \E k \in 1..Len(ret) : \E i \in 1..(Len(canonical) - 1) :
              ret[k] = JoinSpaced(canonical, i, i + 1)

\* C4: a sentence whose emitted form (terminal punctuation plus one space) is
\* longer than max_chunk_size is a chunk of its own, alone and intact.
C4_OversizedSentenceAlone ==
  Chunked =>
    LET canonical == CanonicalSentences(text)
    IN  \A i \in 1..Len(canonical) :
          Oversized(canonical, i, max_chunk_size) =>
            \E k \in 1..Len(ret) : ret[k] = canonical[i]

\* an oversized sentence between two sentences that fit
C4_Witness ==
  /\ Chunked
  /\ LET canonical == CanonicalSentences(text)
     IN  \E i \in 2..(Len(canonical) - 1) :
           /\ Oversized(canonical, i, max_chunk_size)
           /\ ~Oversized(canonical, i - 1, max_chunk_size)
           /\ ~Oversized(canonical, i + 1, max_chunk_size)
           /\ \E k \in 2..(Len(ret) - 1) : ret[k] = canonical[i]

\* C5: no chunk is the empty string, whatever the text and max_chunk_size,
\* zero and negative sizes included.
C5_NoEmptyChunk ==
  Chunked => \A k \in 1..Len(ret) : ret[k] # <<>>

\* a call with a size no sentence fits that returned several chunks
C5_Witness ==
  /\ Chunked
  /\ max_chunk_size <= 0
  /\ Len(ret) >= 2

(***************************************************************************)
(* The Line Classifier and the Heading Detector as rules.                   *)
(***************************************************************************)
AllDigits(s) == Len(s) >= 1 /\ \A i \in 1..Len(s) : s[i] \in Digits

LinkPrefixes == {<<"h","t","t","p">>, <<"w","w","w",".">>, <<"m","a","i","l","t","o",":">>}

DurationSuffixes == {<<"m","i","n">>, <<"s","e","c">>, <<"h","r">>}

DurationUnits ==
  DurationSuffixes \cup
  {<<"m","i","n","u","t","e">>, <<"s","e","c","o","n","d">>, <<"h","o","u","r">>}

\* rule 5: digits, optional whitespace, a duration unit, anything
LeadingDuration(low) ==
  \E d \in 1..Len(low) : \E w \in 0..(Len(low) - d) :
    /\ \A i \in 1..d : low[i] \in Digits
    /\ \A i \in (d + 1)..(d + w) : low[i] \in Whitespace
    /\ \E u \in DurationUnits : StartsWith(SubSeq(low, d + w + 1, Len(low)), u)

\* rule 6: the whole line is 'step N', 'unit N' or 'N.'
WholeLineMarker(low) ==
  \/ StartsWith(low, <<"s","t","e","p"," ">>) /\ AllDigits(SubSeq(low, 6, Len(low)))
  \/ StartsWith(low, <<"u","n","i","t"," ">>) /\ AllDigits(SubSeq(low, 6, Len(low)))
  \/ EndsWith(low, <<".">>) /\ AllDigits(SubSeq(low, 1, Len(low) - 1))

\* the six noise rules on a trimmed line, compared case-insensitively
NoiseLine(line) ==
  LET low == Lower(line)
  IN  \/ Len(line) < 3
      \/ \E p \in 1..Len(filter_phrases) : Contains(low, filter_phrases[p])
      \/ \E p \in LinkPrefixes : StartsWith(low, p)
      \/ \E p \in DurationSuffixes : EndsWith(low, p)
      \/ LeadingDuration(low)
      \/ WholeLineMarker(low)

ContentLine(line) == ~NoiseLine(line)

Letters == Uppercase \cup Lowercase

CharsOf(s) == {s[i] : i \in 1..Len(s)}

\* no lowercase letter and at least one uppercase letter
WholeUpper(s) == CharsOf(s) \cap Lowercase = {} /\ CharsOf(s) \cap Uppercase # {}

\* every run of letters is one uppercase letter followed by lowercase ones
WholeTitle(s) ==
  /\ CharsOf(s) \cap Letters # {}
  /\ \A i \in 1..Len(s) :
       s[i] \in Letters =>
         (s[i] \in Uppercase <=> (i = 1 \/ s[i - 1] \notin Letters))

\* some whitespace-delimited word is uppercase
SomeWordUpper(s) ==
  \E i \in 1..Len(s) : \E j \in i..Len(s) :
    /\ i = 1 \/ s[i - 1] \in Whitespace
    /\ j = Len(s) \/ s[j + 1] \in Whitespace
    /\ \A k \in i..j : s[k] \notin Whitespace
    /\ WholeUpper(SubSeq(s, i, j))

\* the three conditions of the Heading Detector
HeadingByRule(line) ==
  /\ Len(line) < 100
  /\ Len(line) = 0 \/ line[Len(line)] \notin {".", "!", "?", ",", ";", ":"}
  /\ WholeUpper(line) \/ WholeTitle(line) \/ SomeWordUpper(line)

NonEmpty(line) == line # <<>>

\* the trimmed lines of a text
TrimmedLines(t) == StripEach(SplitLines(t))

\* a trimmed line that normalisation leaves as it is
Normalised(line) == _basic_cleanup(line) = line

\* the parts occur in s one after the other, from part i and position from on
RECURSIVE OccurInOrder(_, _, _, _)
OccurInOrder(s, parts, i, from) ==
  IF i > Len(parts) THEN TRUE
  ELSE LET p == parts[i]
           occ == {k \in from..(Len(s) - Len(p) + 1) : SubSeq(s, k, k + Len(p) - 1) = p}
       IN  occ # {} /\ OccurInOrder(s, parts, i + 1, MinOf(occ) + Len(p))

Cleaned == call = "clean_and_structure"

(***************************************************************************)
(* Filter, heading and structuring properties.                              *)
(***************************************************************************)
\* C9: the line filter returns exactly the trimmed input lines that match
\* none of the six noise rules, verbatim and in their order.
C9_FilterIsSubsequence ==
  call = "_filter_unwanted_content" =>
    ret = JoinLines(SelectSeq(TrimmedLines(text), ContentLine))

\* the filter removed a line of three characters or more and kept another
C9_Witness ==
  /\ call = "_filter_unwanted_content"
  /\ ret # <<>>
  /\ \E i \in 1..Len(TrimmedLines(text)) :
       Len(TrimmedLines(text)[i]) >= 3 /\ NoiseLine(TrimmedLines(text)[i])

\* C10: _is_heading(line) is true iff the line has fewer than 100 characters,
\* does not end in . ! ? , ; : and is uppercase, or title-case, or has an
\* uppercase word.
C10_HeadingIffRule ==
  call = "_is_heading" => (ret <=> HeadingByRule(text))

\* a heading only by its uppercase word
C10_Witness ==
  /\ call = "_is_heading"
  /\ ret = TRUE
  /\ ~WholeUpper(text)
  /\ ~WholeTitle(text)

\* C8: every non-empty line returned by the structuring pass, and by
\* clean_and_structure, ends with . ! or ?; a line without terminal
\* punctuation got exactly one '.', a line with it is unchanged.
C8_LinesEndTerminated ==
  /\ (call = "_structure_for_audio" \/ Cleaned) =>
       \A i \in 1..Len(SplitLines(ret)) :
         LET line == SplitLines(ret)[i]
         IN  line = <<>> \/ line[Len(line)] \in Terminal
  /\ call = "_structure_for_audio" =>
       LET input == SelectSeq(TrimmedLines(text), NonEmpty)
       IN  SelectSeq(SplitLines(ret), NonEmpty) =
             [i \in 1..Len(input) |-> Terminated(input[i])]

\* the pass took a line with terminal punctuation and a plain line without
C8_Witness ==
  /\ call = "_structure_for_audio"
  /\ LET input == SelectSeq(TrimmedLines(text), NonEmpty)
     IN  /\ \E i \in 1..Len(input) : input[i] = Terminated(input[i])
         /\ \E i \in 1..Len(input) :
              input[i] # Terminated(input[i]) /\ ~HeadingByRule(input[i])

\* C1: clean_and_structure filters raw text of several lines line by line:
\* every content line appears in the result, in order, and no noise line does.
C1_FiltersLineByLine ==
  (Cleaned /\ origin = "raw" /\ Len(SplitLines(text)) >= 2) =>
    LET lines == TrimmedLines(text)
        kept(line) == ContentLine(line) /\ Normalised(line)
    IN  /\ OccurInOrder(ret, SelectSeq(lines, kept), 1, 1)
        /\ \A i \in 1..Len(lines) :
             (Len(lines[i]) >= 3 /\ NoiseLine(lines[i])) =>
               \A j \in 1..Len(SplitLines(ret)) :
                 SplitLines(ret)[j] \notin {lines[i], lines[i] \o <<".">>}

\* C6: clean_and_structure applied to its own result returns it unchanged.
C6_Idempotent ==
  (Cleaned /\ origin = "clean_and_structure") => ret = text

\* C7: a heading line of the input of clean_and_structure is in the result
\* with '.' appended and a blank line right after it.
C7_HeadingThenBlankLine ==
  (Cleaned /\ origin = "raw") =>
    LET lines == TrimmedLines(text)
        out == SplitLines(ret)
    IN  \A i \in 1..Len(lines) :
          (HeadingByRule(lines[i]) /\ ContentLine(lines[i]) /\ Normalised(lines[i])) =>
            \E j \in 1..(Len(out) - 1) :
              out[j] = lines[i] \o <<".">> /\ out[j + 1] = <<>>

(***************************************************************************)
(* Normalizer pass 1 and degenerate inputs.                                 *)
(***************************************************************************)
\* the lengths of the maximal runs of consecutive newlines of s, in order
NewlineRuns(s) ==
  LET starts == {k \in 1..Len(s) : s[k] = "\n" /\ (k = 1 \/ s[k - 1] # "\n")}
      f[i \in 1..(Len(s) + 1)] ==
        LET rest == {k \in starts : k >= i}
        IN  IF rest = {} THEN <<>>
            ELSE <<RunLen(s, MinOf(rest), {"\n"})>> \o f[MinOf(rest) + 1]
  IN  f[1]

\* no newline of s has horizontal whitespace next to it
PureNewlineRuns(s) ==
  \A k \in 1..Len(s) :
    s[k] = "\n" =>
      /\ k = 1 \/ s[k - 1] \notin (Whitespace \ {"\n"})
      /\ k = Len(s) \/ s[k + 1] \notin (Whitespace \ {"\n"})

AtMostTwo(n) == IF n > 2 THEN 2 ELSE n

\* C11: pass 1 keeps line breaks: a run of three or more newlines becomes
\* exactly two, a single or double newline stays as it is.
C11_KeepsLineBreaks ==
  (call = "_basic_cleanup" /\ PureNewlineRuns(text)) =>
    NewlineRuns(ret) =
      [i \in 1..Len(NewlineRuns(text)) |-> AtMostTwo(NewlineRuns(text)[i])]

\* C20: the output of pass 1 has no two adjacent space characters.
C20_NoAdjacentSpaces ==
  call = "_basic_cleanup" =>
    \A i \in 1..(Len(ret) - 1) : ~(ret[i] = " " /\ ret[i + 1] = " ")

\* C12: clean_and_structure returns the empty string and raises nothing for
\* the empty string and for None.
C12_EmptyForFalsyInput ==
  (call = "clean_and_structure" /\ text \in {<<>>, None}) =>
    ret = <<>> /\ raised = "none"

\* clean_and_structure was called with None
C12_Witness ==
  /\ call = "clean_and_structure"
  /\ text = None
  /\ ret = <<>>
  /\ raised = "none"

\* C13: split_into_chunks returns no chunk for an empty or whitespace-only
\* text, whatever max_chunk_size; so the empty result of clean_and_structure
\* for all-noise raw text gives no chunk.
C13_NoChunkForBlankText ==
  (call = "split_into_chunks" /\ text # None /\ Strip(text) = <<>>) =>
    ret = <<>> /\ raised = "none"

\* a whitespace-only text was chunked with a size smaller than the text
C13_Witness ==
  /\ call = "split_into_chunks"
  /\ text # <<>>
  /\ text # None
  /\ Strip(text) = <<>>
  /\ max_chunk_size < Len(text)
  /\ ret = <<>>

\* C14: split_into_chunks called with None returns an empty chunk sequence
\* and raises nothing.
C14_SplitTotalOnNone ==
  (call = "split_into_chunks" /\ text = None) =>
    ret = <<>> /\ raised = "none"

\* C19 as stated: every chunk ends with . ! or ?, and a non-empty text with
\* no terminal punctuation yields one chunk, the trimmed text with '.'.
C19_NonEmptyTextOneChunk ==
  Chunked =>
    /\ \A k \in 1..Len(ret) : ret[k][Len(ret[k])] \in Terminal
    /\ (text # <<>> /\ CharsOf(text) \cap Terminal = {}) =>
         ret = <<Strip(text) \o <<".">>>>

\* C19 amended: every chunk ends with . ! or ?, and a text with a
\* non-whitespace character and no terminal punctuation yields one chunk, the
\* trimmed text with '.'.
C19_ChunksEndTerminated ==
  Chunked =>
    /\ \A k \in 1..Len(ret) : ret[k] # <<>> /\ ret[k][Len(ret[k])] \in Terminal
    /\ (Strip(text) # <<>> /\ CharsOf(text) \cap Terminal = {}) =>
         ret = <<Strip(text) \o <<".">>>>

\* a text without terminal punctuation, longer than max_chunk_size, chunked
C19_Witness ==
  /\ Chunked
  /\ Strip(text) # <<>>
  /\ CharsOf(text) \cap Terminal = {}
  /\ Len(text) > max_chunk_size
  /\ Len(ret) = 1

(***************************************************************************)
(* validate_url (src/src/utils.py).                                         *)
(***************************************************************************)
\* a truthy value that is not a str
NotAString == <<"int 42">>

\* allowed_domains
allowed_domains ==
  << <<"l","e","a","r","n",".","m","i","c","r","o","s","o","f","t",".","c","o","m">>,
     <<"d","o","c","s",".","m","i","c","r","o","s","o","f","t",".","c","o","m">> >>

HostChars == Lowercase \cup Uppercase \cup Digits \cup {".", "-"}

\* urlparse(url).netloc: what stands between '//' after the scheme and the
\* next '/', '?' or '#'
Netloc(u) ==
  LET colons == {k \in 1..Len(u) : u[k] = ":"}
  IN  IF colons = {} THEN <<>>
      ELSE LET rest == SubSeq(u, MinOf(colons) + 1, Len(u))
           IN  IF StartsWith(rest, <<"/","/">>)
                 THEN SubSeq(rest, 3, 2 + RunLenOutside(rest, 3, {"/", "?", "#"}))
                 ELSE <<>>

\* validators.url(url) of the validators package, for the URLs of the model:
\* an http or https scheme, '://', a dotted host name of letters, digits, '.'
\* and '-', and no whitespace anywhere
validators_url(u) ==
  LET colons == {k \in 1..Len(u) : u[k] = ":"}
      host == Netloc(u)
  IN  /\ colons # {}
      /\ SubSeq(u, 1, MinOf(colons) - 1) \in {<<"h","t","t","p">>, <<"h","t","t","p","s">>}
      /\ host # <<>>
      /\ \A k \in 1..Len(host) : host[k] \in HostChars
      /\ \E k \in 2..(Len(host) - 1) : host[k] = "."
      /\ host[1] # "." /\ host[Len(host)] # "."
      /\ \A k \in 1..Len(u) : u[k] \notin Whitespace

\* any(domain in parsed.netloc for domain in allowed_domains)
NetlocHoldsAllowed(netloc) ==
  \E i \in 1..Len(allowed_domains) : Contains(netloc, allowed_domains[i])

validate_url(u) ==
  IF u = None \/ u = <<>> \/ u = NotAString THEN FALSE
  ELSE IF ~validators_url(u) THEN FALSE
  ELSE NetlocHoldsAllowed(Netloc(u))

\* the URLs given on the command line
Urls ==
  { None, <<>>, NotAString,
    <<"h","t","t","p","s",":","/","/","l","e","a","r","n",".","m","i","c","r","o","s","o","f","t",".","c","o","m","/","t","r","a","i","n","i","n","g","/","x">>,
    <<"h","t","t","p",":","/","/","d","o","c","s",".","m","i","c","r","o","s","o","f","t",".","c","o","m">>,
    <<"h","t","t","p","s",":","/","/","l","e","a","r","n",".","m","i","c","r","o","s","o","f","t",".","c","o","m",".","e","v","i","l",".","i","o","/","x">>,
    <<"h","t","t","p","s",":","/","/","e","v","i","l",".","i","o","/","l","e","a","r","n",".","m","i","c","r","o","s","o","f","t",".","c","o","m">>,
    <<"l","e","a","r","n",".","m","i","c","r","o","s","o","f","t",".","c","o","m","/","t","r","a","i","n","i","n","g">>,
    <<"h","t","t","p","s",":","/","/","l","e","a","r","n"," ","m","i","c","r","o","s","o","f","t",".","c","o","m">> }

(***************************************************************************)
(* Inputs of a run.                                                         *)
(***************************************************************************)
MaxUnits == 2

Repeat(c, n) == [k \in 1..n |-> c]

\* a sentence of 2502 characters
LongSentence == <<"O">> \o Repeat("o", 2500) \o <<".">>

\* what _extract_unit_content returns: the empty string (also after a failed
\* request), a short text, a text of noise only, a text over 4000 characters
UnitContents ==
  { <<>>,
    <<"H","i"," ","t","h","e","r","e","."," ","G","o"," ","n","o","w">>,
    <<"N","e","x","t"," ","u","n","i","t"," ","5"," ","m","i","n">>,
    LongSentence \o <<" ">> \o LongSentence }

\* clean_and_structure(unit_content) for each content of the model, computed
\* once
ProcessedTexts == [c \in UnitContents |-> clean_and_structure(c)]

\* split_into_chunks(text) with the default max_chunk_size for each processed
\* text of the model, computed once
DefaultChunks ==
  [t \in {ProcessedTexts[c] : c \in UnitContents} |->
     split_into_chunks(t, DefaultMaxChunkSize)]


(***************************************************************************)
(* The run of main() (src/main.py) and, inside it, of text_to_audio         *)
(* (src/src/audio_converter.py): one action per step between two calls of   *)
(* a collaborator (a request, a backend call, the file system).  pc is the  *)
(* position in the code; console is the list of the per-unit messages       *)
(* printed so far.  The audio returned by the k-th backend call of a        *)
(* conversion is named k, a file holds a sequence of audios, and the k-th   *)
(* temporary file of a conversion is named k.  faults records which backend *)
(* call raised (0: none) and how the combination of the files went.         *)
(***************************************************************************)
RunInit ==
  /\ text = <<>>
  /\ max_chunk_size = DefaultMaxChunkSize
  /\ origin = "raw"
  /\ call = "none"
  /\ ret = <<>>
  /\ raised = "none"
  /\ url \in Urls
  /\ voice_type \in {"online", "offline"}
  /\ pc = "start"
  /\ valid = FALSE
  /\ exit_code = -1
  /\ unit_links = <<>>
  /\ idx = 0
  /\ fetches = <<>>
  /\ title_requests = <<>>
  /\ console = <<>>
  /\ unit_content = <<>>
  /\ processed_text = <<>>
  /\ text_chunks = <<>>
  /\ backend_calls = <<>>
  /\ temp_files = <<>>
  /\ disk = {}
  /\ output = NoFile
  /\ success = FALSE
  /\ faults = NoFaults

\* main returns code
Return(code) ==
  /\ pc' = "done"
  /\ exit_code' = code

\* 'if not validate_url(args.url): return 1'
ValidateUrl ==
  /\ pc = "start"
  /\ valid' = validate_url(url)
  /\ IF validate_url(url)
       THEN pc' = "links" /\ UNCHANGED exit_code
       ELSE Return(1)
  /\ UNCHANGED <<url, voice_type, unit_links, idx, fetches, title_requests,
                 console, unit_content, processed_text>>
  /\ UNCHANGED <<text_vars, converter_vars>>

\* unit_links = scraper.get_units_links(args.url): a list without
\* duplicates, empty when the request fails; 'if not unit_links: return 1'
GetUnitsLinks ==
  /\ pc = "links"
  /\ \E n \in 0..MaxUnits :
       /\ unit_links' = [k \in 1..n |-> k]
       /\ IF n = 0
            THEN Return(1) /\ UNCHANGED idx
            ELSE pc' = "loop" /\ idx' = 1 /\ UNCHANGED exit_code
  /\ UNCHANGED <<url, voice_type, valid, fetches, title_requests, console,
                 unit_content, processed_text>>
  /\ UNCHANGED <<text_vars, converter_vars>>

\* the conversion of a unit has not begun: no file at its output_path yet
NotConverting ==
  /\ processed_text' = <<>>
  /\ text_chunks' = <<>>
  /\ backend_calls' = <<>>
  /\ temp_files' = <<>>
  /\ disk' = {}
  /\ output' = NoFile
  /\ success' = FALSE
  /\ faults' = NoFaults

\* the head of the loop body, for the next unit and its own output_path:
\* unit_content = scraper._extract_unit_content(unit_url), one request;
\* 'if not unit_content.strip(): continue'
ExtractUnitContent ==
  /\ pc = "loop"
  /\ idx <= Len(unit_links)
  /\ fetches' = Append(fetches, unit_links[idx])
  /\ \E content \in UnitContents :
       /\ unit_content' = content
       /\ IF Strip(content) = <<>>
            THEN /\ console' = Append(console, "empty")
                 /\ idx' = idx + 1
                 /\ pc' = "loop"
            ELSE /\ pc' = "convert"
                 /\ UNCHANGED <<console, idx>>
  /\ NotConverting
  /\ UNCHANGED <<url, voice_type, valid, exit_code, unit_links,
                 title_requests>>
  /\ UNCHANGED text_vars

\* processed_text = processor.clean_and_structure(unit_content), the request
\* for the title, and the call of converter.text_to_audio
ConvertUnit ==
  /\ pc = "convert"
  /\ processed_text' = ProcessedTexts[unit_content]
  /\ title_requests' = Append(title_requests, unit_links[idx])
  /\ pc' = "text_to_audio"
  /\ UNCHANGED <<url, voice_type, valid, exit_code, unit_links, idx, fetches,
                 console, unit_content>>
  /\ UNCHANGED <<text_vars, converter_vars>>

\* what main holds while the converter works
main_but_pc ==
  <<url, voice_type, valid, exit_code, unit_links, idx, fetches,
    title_requests, console, unit_content, processed_text>>

\* text_to_audio: 'if self.voice_type == 'online'', and for the online voice
\* text_chunks is chunks = split_into_chunks(text), and 'if len(chunks) == 1'
TextToAudio ==
  /\ pc = "text_to_audio"
  /\ IF voice_type = "online"
       THEN /\ text_chunks' = DefaultChunks[processed_text]
            /\ pc' = IF Len(DefaultChunks[processed_text]) = 1
                       THEN "gtts_text" ELSE "gtts_chunks"
       ELSE /\ pc' = "pyttsx3"
            /\ UNCHANGED text_chunks
  /\ UNCHANGED <<backend_calls, temp_files, disk, output, success, faults>>
  /\ UNCHANGED <<main_but_pc, text_vars>>

\* one backend call on the whole text, writing output_path: it returns True,
\* or the call raises and it returns False
SpeakText ==
  /\ backend_calls' = <<processed_text>>
  /\ \E ok \in BOOLEAN :
       /\ success' = ok
       /\ output' = (IF ok THEN <<1>> ELSE NoFile)
       /\ faults' = [synthesis |-> IF ok THEN 0 ELSE 1, combine |-> "ok"]
  /\ pc' = "returned"
  /\ UNCHANGED <<text_chunks, temp_files, disk>>
  /\ UNCHANGED <<main_but_pc, text_vars>>

\* _convert_with_gtts for a single chunk: gTTS(text=text).save(output_path)
ConvertTextWithGtts ==
  /\ pc = "gtts_text"
  /\ SpeakText

\* _convert_with_pyttsx3: save_to_file(text, output_path) and runAndWait()
ConvertWithPyttsx3 ==
  /\ pc = "pyttsx3"
  /\ SpeakText

\* one turn of the loop over chunks: a temporary file is created and its
\* name appended to temp_files, then gTTS(text=chunk).save(temp_file.name);
\* when the backend call raises, _convert_with_gtts returns False
ConvertChunk ==
  /\ pc = "gtts_chunks"
  /\ Len(temp_files) < Len(text_chunks)
  /\ temp_files' = Append(temp_files, Len(temp_files) + 1)
  /\ disk' = disk \cup {Len(temp_files) + 1}
  /\ backend_calls' = Append(backend_calls, text_chunks[Len(temp_files) + 1])
  /\ \E ok \in BOOLEAN :
       IF ok
         THEN UNCHANGED <<pc, success, faults>>
         ELSE /\ pc' = "returned"
              /\ success' = FALSE
              /\ faults' = [synthesis |-> Len(temp_files) + 1, combine |-> "ok"]
  /\ UNCHANGED <<text_chunks, output>>
  /\ UNCHANGED <<main_but_pc, text_vars>>

\* _combine_audio_files: the content of output_path afterwards, and whether
\* the call raises.  "ok": every file is read and the concatenation written;
\* "fallback": reading or writing raises, the first file is copied instead;
\* "raise": reading or writing raises and so does the copy.
_combine_audio_files(audio_files, combine) ==
  IF combine = "ok" THEN [output |-> audio_files, raises |-> FALSE]
  ELSE IF audio_files = <<>> THEN [output |-> NoFile, raises |-> FALSE]
  ELSE IF combine = "fallback"
    THEN [output |-> <<audio_files[1]>>, raises |-> FALSE]
    ELSE [output |-> NoFile, raises |-> TRUE]

\* after the loop over chunks: _combine_audio_files(temp_files, output_path),
\* os.unlink of every temporary file, 'return True'; when the combination
\* raises, _convert_with_gtts returns False at once
CombineChunks ==
  /\ pc = "gtts_chunks"
  /\ Len(temp_files) = Len(text_chunks)
  /\ \E combine \in {"ok", "fallback", "raise"} :
       /\ combine = "raise" => temp_files # <<>>
       /\ output' = _combine_audio_files(temp_files, combine).output
       /\ success' = ~_combine_audio_files(temp_files, combine).raises
       /\ disk' = (IF _combine_audio_files(temp_files, combine).raises
                     THEN disk ELSE {})
       /\ faults' = [synthesis |-> 0, combine |-> combine]
  /\ pc' = "returned"
  /\ UNCHANGED <<text_chunks, backend_calls, temp_files>>
  /\ UNCHANGED <<main_but_pc, text_vars>>

\* AfterUnit leaving the loop when the conversion returned False
AfterUnitStopOnError(ok) == IF ok THEN "loop" ELSE "done"

\* the position after the message about the conversion of a unit is printed
AfterUnit(ok) == "loop"

\* 'if success: ... else: ...': the message about the unit; the loop goes on
ReportUnit ==
  /\ pc = "returned"
  /\ console' = Append(console, IF success THEN "converted" ELSE "error")
  /\ idx' = idx + 1
  /\ pc' = AfterUnit(success)
  /\ UNCHANGED <<url, voice_type, valid, exit_code, unit_links, fetches,
                 title_requests, unit_content, processed_text>>
  /\ UNCHANGED <<text_vars, converter_vars>>

\* the loop is over: 'return 0'
Finish ==
  /\ pc = "loop"
  /\ idx > Len(unit_links)
  /\ Return(0)
  /\ UNCHANGED <<url, voice_type, valid, unit_links, idx, fetches,
                 title_requests, console, unit_content, processed_text>>
  /\ UNCHANGED <<text_vars, converter_vars>>

RunNext ==
  \/ ValidateUrl
  \/ GetUnitsLinks
  \/ ExtractUnitContent
  \/ ConvertUnit
  \/ TextToAudio
  \/ ConvertTextWithGtts
  \/ ConvertWithPyttsx3
  \/ ConvertChunk
  \/ CombineChunks
  \/ ReportUnit
  \/ Finish

RunSpec == RunInit /\ [][RunNext]_vars

(***************************************************************************)
(* Converter, URL check and driver properties.                              *)
(***************************************************************************)
\* text_to_audio has returned for the current unit
Converted == pc = "returned"

\* the texts whose audio the output file holds, in order
SpokenInOutput == [k \in 1..Len(output) |-> backend_calls[output[k]]]

\* the host is one of the two Microsoft Learn hosts
HostIsAllowed(host) ==
  \E i \in 1..Len(allowed_domains) : host = allowed_domains[i]

\* C15: for either voice type, when no backend call fails, the backend is
\* called once per chunk in chunk order if the text has more than one chunk,
\* and once on the whole text if it has a single chunk.
C15_BackendOncePerChunk ==
  (Converted /\ faults.synthesis = 0) =>
    /\ Len(DefaultChunks[processed_text]) > 1 =>
         backend_calls = DefaultChunks[processed_text]
    /\ Len(DefaultChunks[processed_text]) = 1 =>
         backend_calls = <<processed_text>>

\* C16: text_to_audio returns True only if the output file holds the audio of
\* every chunk in chunk order (as one audio of the whole text or one per
\* chunk), and returns False when a backend call or the combination fails.
C16_TrueOnlyIfComplete ==
  Converted =>
    /\ success =>
         /\ output # NoFile
         /\ \/ SpokenInOutput = DefaultChunks[processed_text]
            \/ SpokenInOutput = <<processed_text>>
    /\ (faults.synthesis # 0 \/ faults.combine # "ok") => ~success

\* C17: validate_url returns True only for a well-formed URL whose host is
\* learn.microsoft.com or docs.microsoft.com, and False for None, the empty
\* string and a value that is not a string.
C17_OnlyMicrosoftLearnHosts ==
  pc # "start" =>
    /\ valid =>
         /\ url \notin {None, NotAString, <<>>}
         /\ validators_url(url)
         /\ HostIsAllowed(Netloc(url))
    /\ url \in {None, NotAString, <<>>} => ~valid

\* C18: units are fetched one at a time in the order of unit_links, once
\* each; a unit that is empty, not fetched or not converted does not stop
\* the run, which fetches every unit and returns 0.
C18_FailuresNeverStopTheRun ==
  /\ fetches = SubSeq(unit_links, 1, Len(fetches))
  /\ Len(fetches) \in {Len(console), Len(console) + 1}
  /\ pc \in {"convert", "text_to_audio", "gtts_text", "gtts_chunks",
             "pyttsx3", "returned"} => Len(fetches) = Len(console) + 1
  /\ (pc = "done" /\ unit_links # <<>>) =>
       /\ exit_code = 0
       /\ fetches = unit_links
       /\ Len(console) = Len(unit_links)

\* a finished run whose first unit was not converted and whose second unit
\* was empty or not fetched
C18_Witness ==
  /\ pc = "done"
  /\ exit_code = 0
  /\ console = <<"error", "empty">>
  /\ fetches = <<1, 2>>

(***************************************************************************)
(* The allowlist of Normalizer pass 1.                                      *)
(***************************************************************************)
\* the elements of s at the positions in keep, in order
Selected(s, keep) ==
  LET f[i \in 1..(Len(s) + 1)] ==
        LET rest == {k \in keep : k >= i}
        IN  IF rest = {} THEN <<>>
            ELSE <<s[MinOf(rest)]>> \o f[MinOf(rest) + 1]
  IN  f[1]

\* the allowlisted characters of s in their order
AllowlistedOf(s) == Selected(s, {k \in 1..Len(s) : s[k] \in AllowedChars})

\* s with every whitespace character written as a space
Spaced(s) == [k \in 1..Len(s) |-> IF s[k] \in Whitespace THEN " " ELSE s[k]]

\* s up to whitespace and repeated-punctuation collapsing: a whitespace
\* character after a whitespace character and a '.', '?' or '!' after the
\* same mark are left out, the other whitespace is written as a space
Collapsed(s) ==
  Selected(Spaced(s),
           {k \in 1..Len(s) :
              ~(k > 1 /\ s[k] \in Whitespace /\ s[k - 1] \in Whitespace)
              /\ ~(k > 1 /\ s[k] \in Terminal /\ s[k - 1] = s[k])})

\* C21: pass 1 deletes every character outside the allowlist, puts nothing
\* in its place and keeps every allowlisted character: its output is the
\* allowlisted characters of the input in their order, up to whitespace and
\* repeated-punctuation collapsing.
C21_KeepsExactlyAllowlisted ==
  call = "_basic_cleanup" =>
    /\ \A k \in 1..Len(ret) : ret[k] \in AllowedChars
    /\ Len(ret) <= Len(text)
    /\ Collapsed(ret) = Collapsed(AllowlistedOf(text))

\* pass 1 ran on a text with a character outside the allowlist next to
\* allowlisted punctuation, and deleted it
C21_Witness ==
  /\ call = "_basic_cleanup"
  /\ \E k \in 1..Len(text) : text[k] \notin AllowedChars
  /\ \E k \in 1..Len(text) : text[k] \in Terminal
  /\ \E k \in 1..Len(ret) : ret[k] \in Terminal
  /\ Len(ret) < Len(text)

(***************************************************************************)
(* The temporary files of the conversion by chunks.                         *)
(***************************************************************************)
\* the conversion by chunks (the 'else' of 'if len(chunks) == 1') returned
ConvertedByChunks ==
  /\ Converted
  /\ voice_type = "online"
  /\ Len(text_chunks) # 1

\* C22: whenever the conversion by chunks returns, with True or with False,
\* every temporary file it created during the call has been deleted; a
\* backend call that raises on a later chunk leaves no temporary file of an
\* earlier chunk behind.
C22_TempFilesDeleted ==
  ConvertedByChunks =>
    \A k \in 1..Len(temp_files) : temp_files[k] \notin disk

====
